---- MODULE Spec2Model ----
(***************************************************************************)
(* Model of karta/vector/vectorgeo.pyx: planar path length, planar         *)
(* nearest point on a segment, and the geodesic bisection search.          *)
(*                                                                         *)
(* Real numbers are modelled exactly: a double is a rational <<n, d>> with *)
(* d > 0, and a square root is kept symbolically as its radicand, so       *)
(* rounding error is outside the model.                                    *)
(***************************************************************************)
EXTENDS Integers, Sequences, FiniteSets, TLC

(***************************************************************************)
(* Bounds                                                                  *)
(***************************************************************************)
\* longest coordinate sequence handed to length()
MaxN == 4
\* planar coordinates are drawn from 0..MaxCoord, in units of 0.5e-4
MaxCoord == 3

\* longest arc handed to pt_nearest_proj, in distance units
MaxL == 8
\* largest tolerance handed to pt_nearest_proj, in distance units
MaxTol == 3
\* largest iteration budget handed to pt_nearest_proj
MaxIter == 3

\* the literal 1e-4 of pt_nearest_planar, in units of 0.5e-4
NearVerticalTol == 2
\* the finite-difference step 1e-7*L of pt_nearest_proj is taken as
\* L/GradStepDen, a step below the narrowest bracket the search reaches
GradStepDen == 64

(***************************************************************************)
(* Exact arithmetic                                                        *)
(***************************************************************************)
\* Op(a, b) with each operand evaluated once
Eager2(Op(_, _), a, b) ==
    CHOOSE r \in {Op(v[1], v[2]) : v \in {<<a, b>>}} : TRUE

R(k) == <<k, 1>>

RAbs(k) == IF k < 0 THEN -k ELSE k

RECURSIVE GCD(_, _)
GCD(a, b) == IF b = 0 THEN a ELSE Eager2(GCD, b, a % b)

\* canonical form: positive denominator, lowest terms
RNorm(a, b) ==
    LET s == IF b < 0 THEN -1 ELSE 1
        g == GCD(RAbs(a), RAbs(b))
    IN  <<(s*a) \div g, (s*b) \div g>>

AddRaw(a, b) == Eager2(RNorm, a[1]*b[2] + b[1]*a[2], a[2]*b[2])

SubRaw(a, b) == Eager2(RNorm, a[1]*b[2] - b[1]*a[2], a[2]*b[2])

MulRaw(a, b) == Eager2(RNorm, a[1]*b[1], a[2]*b[2])

DivRaw(a, b) == Eager2(RNorm, a[1]*b[2], a[2]*b[1])

RAdd(a, b) == Eager2(AddRaw, a, b)

RSub(a, b) == Eager2(SubRaw, a, b)

RMul(a, b) == Eager2(MulRaw, a, b)

RDiv(a, b) == Eager2(DivRaw, a, b)

LtRaw(a, b) == a[1]*b[2] < b[1]*a[2]

LeRaw(a, b) == a[1]*b[2] <= b[1]*a[2]

RLt(a, b) == Eager2(LtRaw, a, b)

RLe(a, b) == Eager2(LeRaw, a, b)

\* sqrt(a), kept as its radicand
RSqrt(a) == [sqrtOf |-> a]

\* integer square root, defined on perfect squares
ISqrt(k) == CHOOSE r \in 0..k : r*r = k

(***************************************************************************)
(* Vector and scalar primitives                                            *)
(***************************************************************************)
Vector2(a, b) == [x |-> a, y |-> b]

dot2(u, v) == RAdd(RMul(u.x, v.x), RMul(u.y, v.y))

\* proj2 with the components of the result exchanged
proj2_swapped(u, v) ==
    LET uv_vv == RDiv(dot2(u, v), dot2(v, v))
    IN  Vector2(RMul(uv_vv, v.y), RMul(uv_vv, v.x))

proj2(u, v) ==
    LET uv_vv == RDiv(dot2(u, v), dot2(v, v))
    IN  Vector2(RMul(uv_vv, v.x), RMul(uv_vv, v.y))

dist2(pt0, pt1) ==
    RSqrt(RAdd(RMul(RSub(pt0.x, pt1.x), RSub(pt0.x, pt1.x)),
               RMul(RSub(pt0.y, pt1.y), RSub(pt0.y, pt1.y))))

mind(a, b) == IF RLe(a, b) THEN a ELSE b

maxd(a, b) == IF RLe(b, a) THEN a ELSE b

AbsRaw(a, z) == IF RLt(a, z) THEN RSub(z, a) ELSE a

absd(a) == Eager2(AbsRaw, a, R(0))

(***************************************************************************)
(* State                                                                   *)
(***************************************************************************)
VARIABLES
    \* length(cs)
    cs,         \* the CoordString argument: [coords, ring]
    lpc,        \* "idle" | "loop" | "done"
    n, i, d,    \* locals of length()
    x0, y0,     \* previous vertex
    req,        \* indices asked of cs.getX / cs.getY so far
    \* pt_nearest_planar(x, y, endpt0_0, endpt0_1, endpt1_0, endpt1_1)
    pargs,      \* [pt, pt0, pt1], integer pairs
    ppc,        \* "idle" | "call" | "done"
    pret,       \* the returned (point, distance)
    \* pt_nearest_proj(fwd, inv, pt, endpt0, endpt1, tol, maxiter)
    gargs,      \* [L, tol, maxiter, obj]
    gpc,        \* "idle" | "call" | "loop" | "returned" | "raised"
    bx0, bx1,   \* the bracket x0, x1
    xm, dx,     \* last midpoint, tracked width
    it,         \* the iteration counter i
    mids,       \* midpoints at which the gradient was evaluated, in order
    gret        \* the returned (point, distance)

lvars == <<cs, lpc, n, i, d, x0, y0, req>>
pvars == <<pargs, ppc, pret>>
gvars == <<gargs, gpc, bx0, bx1, xm, dx, it, mids, gret>>
vars == <<lvars, pvars, gvars>>

None == [none |-> TRUE]

LengthIdle ==
    /\ cs = None /\ lpc = "idle" /\ n = 0 /\ i = 0 /\ d = 0
    /\ x0 = 0 /\ y0 = 0 /\ req = {}

PlanarIdle ==
    /\ pargs = None /\ ppc = "idle" /\ pret = None

ProjIdle ==
    /\ gargs = None /\ gpc = "idle" /\ bx0 = R(0) /\ bx1 = R(0)
    /\ xm = R(0) /\ dx = R(0) /\ it = 0 /\ mids = <<>> /\ gret = None

(***************************************************************************)
(* length(cs)                                                              *)
(***************************************************************************)
\* vertices with integral mutual distances: the corners of a 3 x 4 rectangle
Corners == {<<0, 0>>, <<3, 0>>, <<0, 4>>, <<3, 4>>}

CoordVals == {0, 3, 4}

CoordStrings ==
    [coords : UNION {[1..k -> Corners] : k \in 1..MaxN}, ring : BOOLEAN]

\* CoordString.__len__
CsLen(c) == Len(c.coords)

\* CoordString.getX / getY: a ring answers index len with vertex 0; any
\* other index outside 0..len-1 reads past the buffer
CsGet(c, index, k) ==
    IF c.ring /\ index = CsLen(c) THEN {c.coords[1][k]}
    ELSE IF index \in 0..(CsLen(c) - 1) THEN {c.coords[index + 1][k]}
    ELSE CoordVals

\* lines 109-111 without the ring adjustment
LengthN_noring(c) == CsLen(c)

\* lines 109-111: n = len(cs); if cs.ring: n += 1
LengthN(c) == CsLen(c) + (IF c.ring THEN 1 ELSE 0)

\* line 120: the increment of d for one segment
SegLen(ax, ay, bx, by) == ISqrt((bx - ax)*(bx - ax) + (by - ay)*(by - ay))

\* lines 109-116
LengthCall ==
    /\ lpc = "idle"
    /\ \E c \in CoordStrings :
         \E gx \in CsGet(c, 0, 1), gy \in CsGet(c, 0, 2) :
            /\ cs' = c
            /\ n' = LengthN(c)
            /\ i' = 0
            /\ d' = 0
            /\ x0' = gx
            /\ y0' = gy
            /\ req' = {0}
    /\ lpc' = "loop"
    /\ UNCHANGED <<pvars, gvars>>

\* lines 117-123: one pass of the while loop
LengthStep ==
    /\ lpc = "loop"
    /\ i # n - 1
    /\ \E x1 \in CsGet(cs, i + 1, 1), y1 \in CsGet(cs, i + 1, 2) :
         /\ d' = d + SegLen(x0, y0, x1, y1)
         /\ x0' = x1
         /\ y0' = y1
    /\ req' = req \cup {i + 1}
    /\ i' = i + 1
    /\ UNCHANGED <<cs, lpc, n>>
    /\ UNCHANGED <<pvars, gvars>>

\* line 124
LengthReturn ==
    /\ lpc = "loop"
    /\ i = n - 1
    /\ lpc' = "done"
    /\ UNCHANGED <<cs, n, i, d, x0, y0, req>>
    /\ UNCHANGED <<pvars, gvars>>

InitLength == LengthIdle /\ PlanarIdle /\ ProjIdle

NextLength == LengthCall \/ LengthStep \/ LengthReturn

SpecLength == InitLength /\ [][NextLength]_vars

FairSpecLength == SpecLength /\ WF_vars(NextLength)

(***************************************************************************)
(* pt_nearest_planar                                                       *)
(***************************************************************************)
Grid == (0..MaxCoord) \X (0..MaxCoord)

Result(p, dist) == [pt |-> p, dist |-> dist]

\* lines 138-180
pt_nearest_planar(x, y, endpt0_0, endpt0_1, endpt1_0, endpt1_1) ==
    LET pt  == Vector2(x, y)
        pt0 == Vector2(endpt0_0, endpt0_1)
        pt1 == Vector2(endpt1_0, endpt1_1)
        u == Vector2(RSub(x, pt0.x), RSub(y, pt0.y))
        v == Vector2(RSub(pt1.x, pt0.x), RSub(pt1.y, pt0.y))
        u_on_v == proj2(u, v)
        u_int == Vector2(RAdd(u_on_v.x, pt0.x), RAdd(u_on_v.y, pt0.y))
    IN  IF RLt(absd(RSub(pt0.x, pt1.x)), R(NearVerticalTol))
        THEN IF RLt(maxd(pt0.y, pt1.y), u_int.y)
             THEN IF RLt(pt1.y, pt0.y)
                  THEN Result(pt0, dist2(pt0, pt))
                  ELSE Result(pt1, dist2(pt1, pt))
             ELSE IF RLt(u_int.y, mind(pt0.y, pt1.y))
             THEN IF RLt(pt0.y, pt1.y)
                  THEN Result(pt0, dist2(pt0, pt))
                  ELSE Result(pt1, dist2(pt1, pt))
             ELSE Result(u_int, dist2(u_int, pt))
        ELSE IF RLt(maxd(pt0.x, pt1.x), u_int.x)
             THEN IF RLt(pt1.x, pt0.x)
                  THEN Result(pt0, dist2(pt0, pt))
                  ELSE Result(pt1, dist2(pt1, pt))
             ELSE IF RLt(u_int.x, mind(pt0.x, pt1.x))
             THEN IF RLt(pt0.x, pt1.x)
                  THEN Result(pt0, dist2(pt0, pt))
                  ELSE Result(pt1, dist2(pt1, pt))
             ELSE Result(u_int, dist2(u_int, pt))

\* the arguments of one call; the segment is not degenerate
PlanarArgs == {a \in [pt : Grid, pt0 : Grid, pt1 : Grid] : a.pt0 # a.pt1}

PlanarCall ==
    /\ ppc = "call"
    /\ pret' = pt_nearest_planar(R(pargs.pt[1]), R(pargs.pt[2]),
                                 R(pargs.pt0[1]), R(pargs.pt0[2]),
                                 R(pargs.pt1[1]), R(pargs.pt1[2]))
    /\ ppc' = "done"
    /\ UNCHANGED pargs
    /\ UNCHANGED <<lvars, gvars>>

InitPlanar ==
    /\ LengthIdle
    /\ pargs \in PlanarArgs
    /\ ppc = "call"
    /\ pret = None
    /\ ProjIdle

NextPlanar == PlanarCall

SpecPlanar == InitPlanar /\ [][NextPlanar]_vars

(***************************************************************************)
(* pt_nearest_proj                                                         *)
(***************************************************************************)
\* The fwd/inv pair is the caller's. It is modelled by the objective it
\* induces along the arc: positions are distances from endpt0 along az, and
\* the distance to pt is h + |f - q*L| ("V", unimodal with its minimum at
\* q*L) or h + 2L - |f - q*L| ("peak", a maximum at q*L).
HalfStep == <<1, 2*GradStepDen>>

ExtremumFracs ==
    {<<-1, 4>>, HalfStep, <<1, 16>>, <<1, 2>>, <<7, 8>>,
     RAdd(R(1), HalfStep), <<5, 4>>}

Objectives == [shape : {"V", "peak"}, q : ExtremumFracs, h : 0..1]

GeoArgs ==
    {a \in [L : 1..MaxL, tol : 0..MaxTol, maxiter : (-1)..MaxIter,
            obj : Objectives] : a.maxiter < 0 => a.tol >= 1}

L == R(gargs.L)
tol == R(gargs.tol)
maxiter == gargs.maxiter

\* fwd(x0, y0, az, f): the point at distance f along the arc
fwd(f) == [along |-> f]

\* the third component of inv(trialx, trialy, xp, yp)
inv(trial) ==
    LET off == absd(RSub(trial.along, RMul(gargs.obj.q, L)))
    IN  IF gargs.obj.shape = "V"
        THEN RAdd(R(gargs.obj.h), off)
        ELSE RSub(RAdd(R(gargs.obj.h), RMul(R(2), L)), off)

\* lines 186-193
_along_distance(f) == inv(fwd(f))

\* lines 195-201
_along_distance_gradient(f, step) ==
    LET d1 == _along_distance(f)
        d2 == _along_distance(RAdd(f, step))
    IN  RDiv(RSub(d2, d1), step)

\* the step 1e-7*L of lines 217, 218 and 237
GradStep == RMul(<<1, GradStepDen>>, L)

PtEnd0 == [endpt |-> 0]
PtEnd1 == [endpt |-> 1]

\* line 219 with >= for >
AtEndpt0_nonneg(grad0) == RLe(R(0), grad0)

\* line 219
AtEndpt0(grad0) == RLt(R(0), grad0)

\* line 222
AtEndpt1(grad1) == RLt(grad1, R(0))

\* line 229 without the + 1.0
InitialDx_tol(t) == t

\* line 229
InitialDx(t) == RAdd(t, R(1))

\* line 232
KeepGoing(w, t) == RLt(t, w)

\* line 233 testing one iteration late
Exhausted_late(k, budget) == k = budget + 1

\* line 233
Exhausted(k, budget) == k = budget

\* line 236
Midpoint(a, b) == RMul(<<1, 2>>, RAdd(a, b))

\* lines 238-243 keeping the half the gradient points away from
Bisect_flipped(a, b, m, grad, len) ==
    IF RLt(R(0), grad)
    THEN [x0 |-> m, x1 |-> b, dx |-> RMul(absd(RSub(a, m)), len)]
    ELSE [x0 |-> a, x1 |-> m, dx |-> RMul(absd(RSub(b, m)), len)]

\* lines 238-243 tracking the width of the bracket before the step
Bisect_stale(a, b, m, grad, len) ==
    IF RLt(R(0), grad)
    THEN [x0 |-> a, x1 |-> m, dx |-> RMul(absd(RSub(b, a)), len)]
    ELSE [x0 |-> m, x1 |-> b, dx |-> RMul(absd(RSub(a, b)), len)]

\* lines 238-243
Bisect(a, b, m, grad, len) ==
    IF RLt(R(0), grad)
    THEN [x0 |-> a, x1 |-> m, dx |-> RMul(absd(RSub(b, m)), len)]
    ELSE [x0 |-> m, x1 |-> b, dx |-> RMul(absd(RSub(a, m)), len)]

Grad0 == _along_distance_gradient(R(0), GradStep)
Grad1 == _along_distance_gradient(L, GradStep)

\* lines 203-204: the caller's arguments
ProjInvoke ==
    /\ gpc = "idle"
    /\ gargs' \in GeoArgs
    /\ gpc' = "call"
    /\ UNCHANGED <<bx0, bx1, xm, dx, it, mids, gret>>
    /\ UNCHANGED <<lvars, pvars>>

\* lines 212-230
ProjCall ==
    /\ gpc = "call"
    /\ IF AtEndpt0(Grad0)
       THEN /\ gret' = Result(PtEnd0, _along_distance(R(0)))
            /\ gpc' = "returned"
            /\ UNCHANGED <<bx0, bx1, xm, dx, it>>
       ELSE IF AtEndpt1(Grad1)
       THEN /\ gret' = Result(PtEnd1, _along_distance(L))
            /\ gpc' = "returned"
            /\ UNCHANGED <<bx0, bx1, xm, dx, it>>
       ELSE /\ bx0' = R(0)
            /\ bx1' = R(1)
            /\ xm' = R(0)
            /\ it' = 0
            /\ dx' = InitialDx(tol)
            /\ gpc' = "loop"
            /\ UNCHANGED gret
    /\ UNCHANGED <<gargs, mids>>
    /\ UNCHANGED <<lvars, pvars>>

\* lines 232-235: the budget is spent before the width reached tol
ProjRaise ==
    /\ gpc = "loop"
    /\ KeepGoing(dx, tol)
    /\ Exhausted(it, maxiter)
    /\ gpc' = "raised"
    /\ UNCHANGED <<gargs, bx0, bx1, xm, dx, it, mids, gret>>
    /\ UNCHANGED <<lvars, pvars>>

\* lines 232-244: one bisection step
ProjIterate ==
    /\ gpc = "loop"
    /\ KeepGoing(dx, tol)
    /\ ~Exhausted(it, maxiter)
    /\ \E m \in {Midpoint(bx0, bx1)} :
         \E grad \in {_along_distance_gradient(RMul(m, L), GradStep)} :
           \E b \in {Bisect(bx0, bx1, m, grad, L)} :
              /\ xm' = m
              /\ mids' = Append(mids, m)
              /\ bx0' = b.x0
              /\ bx1' = b.x1
              /\ dx' = b.dx
    /\ it' = it + 1
    /\ UNCHANGED <<gargs, gpc, gret>>
    /\ UNCHANGED <<lvars, pvars>>

\* lines 232, 246-248
ProjReturn ==
    /\ gpc = "loop"
    /\ ~KeepGoing(dx, tol)
    /\ gret' = Result(fwd(RMul(xm, L)), _along_distance(RMul(xm, L)))
    /\ gpc' = "returned"
    /\ UNCHANGED <<gargs, bx0, bx1, xm, dx, it, mids>>
    /\ UNCHANGED <<lvars, pvars>>

InitProj == LengthIdle /\ PlanarIdle /\ ProjIdle

NextProj == ProjInvoke \/ ProjCall \/ ProjRaise \/ ProjIterate \/ ProjReturn

SpecProj == InitProj /\ [][NextProj]_vars

\* the call runs to its return or raise once started
FairSpecProj == SpecProj /\ WF_vars(NextProj)

(***************************************************************************)
(* Properties of length()                                                  *)
(***************************************************************************)
PtDist(a, b) == SegLen(a[1], a[2], b[1], b[2])

RECURSIVE PathSum(_, _)
PathSum(coords, k) ==
    IF k >= Len(coords) THEN 0
    ELSE PtDist(coords[k], coords[k + 1]) + PathSum(coords, k + 1)

ClosingSeg(coords) == PtDist(coords[Len(coords)], coords[1])

C7_Result ==
    lpc = "done" =>
        /\ d = PathSum(cs.coords, 1)
               + (IF cs.ring THEN ClosingSeg(cs.coords) ELSE 0)
        /\ i = IF cs.ring THEN CsLen(cs) ELSE CsLen(cs) - 1
        /\ req = 0..i

E0 == Vector2(R(pargs.pt0[1]), R(pargs.pt0[2]))
E1 == Vector2(R(pargs.pt1[1]), R(pargs.pt1[2]))
P  == Vector2(R(pargs.pt[1]), R(pargs.pt[2]))

VSub(a, b) == Vector2(RSub(a.x, b.x), RSub(a.y, b.y))

cross2r(u, v) == RSub(RMul(u.x, v.y), RMul(u.y, v.x))

Between(a, lo, hi) == RLe(mind(lo, hi), a) /\ RLe(a, maxd(lo, hi))

OnSegment(q, a, b) ==
    /\ cross2r(VSub(q, a), VSub(b, a)) = R(0)
    /\ Between(q.x, a.x, b.x)
    /\ Between(q.y, a.y, b.y)

\* C1: the returned point lies on the closed segment [E0, E1], for every
\* query point and every segment with E0 # E1.
C1_ReturnedPointOnSegment ==
    ppc = "done" => OnSegment(pret.pt, E0, E1)

\* P lies on the line through E0 and E1, strictly beyond E1
BeyondE1 ==
    /\ cross2r(VSub(P, E0), VSub(E1, E0)) = R(0)
    /\ RLt(R(0), dot2(VSub(P, E1), VSub(E1, E0)))

\* C2: a query point on the line through E0 and E1 strictly beyond E1 gets
\* exactly E1 as nearest point, at distance dist2(E1, P).
C2_BeyondE1ReturnsE1 ==
    (ppc = "done" /\ BeyondE1) =>
        /\ pret.pt = E1
        /\ pret.dist = dist2(E1, P)

\* the orthogonal projection of P falls strictly between E0 and E1
ProjectsInside ==
    LET uv == dot2(VSub(P, E0), VSub(E1, E0))
        vv == dot2(VSub(E1, E0), VSub(E1, E0))
    IN  RLt(R(0), uv) /\ RLt(uv, vv)

Foot ==
    LET v == VSub(E1, E0)
        t == RDiv(dot2(VSub(P, E0), v), dot2(v, v))
    IN  Vector2(RAdd(E0.x, RMul(t, v.x)), RAdd(E0.y, RMul(t, v.y)))

\* C3: when the projection of P falls strictly between E0 and E1 the
\* returned point is the foot E0 + ((P-E0).(E1-E0) / (E1-E0).(E1-E0)) (E1-E0),
\* it is neither endpoint, and (F - P).(E1 - E0) = 0.
C3_InteriorReturnsFoot ==
    (ppc = "done" /\ ProjectsInside) =>
        /\ pret.pt = Foot
        /\ pret.pt # E0
        /\ pret.pt # E1
        /\ dot2(VSub(pret.pt, P), VSub(E1, E0)) = R(0)
        /\ pret.dist = dist2(pret.pt, P)

\* an oblique segment whose foot is not a grid point
C3_Witness ==
    /\ ppc = "done"
    /\ ProjectsInside
    /\ pargs = [pt |-> <<3, 0>>, pt0 |-> <<0, 0>>, pt1 |-> <<3, 2>>]
    /\ pret.pt = Vector2(<<27, 13>>, <<18, 13>>)

(***************************************************************************)
(* Properties of pt_nearest_proj                                           *)
(***************************************************************************)
Started == gpc \in {"loop", "returned", "raised"}

Finished == gpc \in {"returned", "raised"}

NoShortCircuit == ~RLt(R(0), Grad0) /\ ~RLt(Grad1, R(0))

ReturnedByBisection ==
    gpc = "returned" /\ gret.pt \notin {PtEnd0, PtEnd1}

Width == RMul(absd(RSub(bx1, bx0)), L)

C4_Safe ==
    (Started /\ maxiter = 0 /\ NoShortCircuit) =>
        /\ gpc # "returned"
        /\ it = 0
        /\ mids = <<>>
        /\ xm = R(0)
        /\ bx0 = R(0) /\ bx1 = R(1)

C4_Step ==
    (gpc = "loop" /\ maxiter = 0) => gpc' = "raised"

\* C4: with maxiter = 0 and no endpoint short-circuit the call raises
\* ConvergenceError with no bisection step done: no midpoint computed, no
\* gradient evaluated at a midpoint, bracket still [0, 1]; for every tol and
\* every L, L <= tol included.
C4_ZeroBudgetRaisesAtOnce == []C4_Safe /\ [][C4_Step]_vars

C4_Witness ==
    /\ gpc = "raised"
    /\ maxiter = 0
    /\ NoShortCircuit
    /\ RLe(L, tol)
    /\ mids = <<>>

C5_Safe ==
    /\ gpc = "raised" =>
          /\ it = maxiter
          /\ Len(mids) = maxiter
          /\ RLt(tol, dx)
    /\ (Started /\ maxiter >= 0) => (it <= maxiter /\ Len(mids) <= maxiter)
    /\ gpc = "returned" => DOMAIN gret = {"pt", "dist"}

C5_Step ==
    (gpc = "loop" /\ it = maxiter /\ RLt(tol, dx)) => gpc' = "raised"

\* C5: ConvergenceError is raised only when the counter has reached maxiter
\* (exactly maxiter bisection steps done) with the tracked width still > tol;
\* whenever the counter reaches maxiter before convergence the call raises;
\* with maxiter >= 0 no more than maxiter steps are done; a call that does
\* not raise returns a (point, distance) pair.
C5_RaiseOnlyWhenExhausted == []C5_Safe /\ [][C5_Step]_vars

C5_Witness ==
    /\ gpc = "raised"
    /\ maxiter = 2
    /\ it = 2
    /\ Len(mids) = 2

Unimodal ==
    /\ gargs.obj.shape = "V"
    /\ RLt(R(0), gargs.obj.q)
    /\ RLt(gargs.obj.q, R(1))

\* C6: on a unimodal objective with its minimum strictly inside (0, L) and
\* no endpoint short-circuit, a return from the bisection carries a distance
\* <= the along-distance at f = 0 and <= the along-distance at f = L.
C6_ReturnedBelowEndpoints ==
    (ReturnedByBisection /\ Unimodal /\ NoShortCircuit) =>
        /\ RLe(gret.dist, _along_distance(R(0)))
        /\ RLe(gret.dist, _along_distance(L))

\* C6 as amended: the returned distance exceeds neither endpoint's
\* along-distance by more than tol plus the finite-difference step.
C6_ReturnedWithinTolOfEndpoints ==
    (ReturnedByBisection /\ Unimodal /\ NoShortCircuit) =>
        /\ RLe(gret.dist, RAdd(_along_distance(R(0)), RAdd(tol, GradStep)))
        /\ RLe(gret.dist, RAdd(_along_distance(L), RAdd(tol, GradStep)))

\* the minimum sits at L/16 and the search stops at the first midpoint
C6_Witness ==
    /\ ReturnedByBisection /\ Unimodal /\ NoShortCircuit
    /\ gargs.obj.q = <<1, 16>>
    /\ xm = <<1, 2>>
    /\ RLt(_along_distance(R(0)), gret.dist)

\* C8: a gradient > 0 at f = 0 returns (E0, along-distance at 0); otherwise a
\* gradient < 0 at f = L returns (E1, along-distance at L); the f = 0 test
\* wins when both hold; neither case runs a bisection step or raises,
\* whatever maxiter and tol; a gradient of exactly 0 does not short-circuit.
C8_EndpointShortCircuit ==
    Started =>
        /\ RLt(R(0), Grad0) =>
              /\ gpc = "returned"
              /\ gret = Result(PtEnd0, _along_distance(R(0)))
              /\ it = 0 /\ mids = <<>>
        /\ (~RLt(R(0), Grad0) /\ RLt(Grad1, R(0))) =>
              /\ gpc = "returned"
              /\ gret = Result(PtEnd1, _along_distance(L))
              /\ it = 0 /\ mids = <<>>
        /\ NoShortCircuit =>
              (gpc = "returned" => gret.pt \notin {PtEnd0, PtEnd1})

\* both tests hold and the budget is 0
C8_Witness ==
    /\ gpc = "returned"
    /\ RLt(R(0), Grad0) /\ RLt(Grad1, R(0))
    /\ maxiter = 0
    /\ gret.pt = PtEnd0

\* a gradient of exactly 0 at f = 0 went on to the bisection
C8_WitnessZero ==
    /\ ReturnedByBisection
    /\ Grad0 = R(0)

BracketOrdered ==
    Started => (RLe(R(0), bx0) /\ RLe(bx0, bx1) /\ RLe(bx1, R(1)))

ReturnInsideBracket ==
    ReturnedByBisection =>
        /\ RLe(Width, tol)
        /\ RLe(bx0, xm) /\ RLe(xm, bx1)

\* C9: the bracket satisfies 0 <= x0 <= x1 <= 1; a bisection step is done
\* only while the bracket's width |x1 - x0|*L is > tol, so none is done from
\* [0, 1] when L <= tol; on a normal return the width is <= tol and xm lies
\* in [x0, x1].
C9_StepsOnlyWhileWide ==
    /\ BracketOrdered
    /\ (Started /\ NoShortCircuit /\ it >= 1) =>
           RLt(tol, RMul(R(2), Width))
    /\ ReturnInsideBracket

\* C9 as amended: the tracked width starts at tol + 1, so the first step is
\* always done; after every step it equals the bracket's width, and each
\* later step is done only while that width is > tol.
C9_StepsWhileTrackedWidthWide ==
    /\ BracketOrdered
    /\ (Started /\ NoShortCircuit) =>
           /\ dx = IF it = 0 THEN RAdd(tol, R(1)) ELSE Width
           /\ it >= 2 => RLt(tol, RMul(R(2), Width))
           /\ gpc = "returned" => it >= 1
    /\ ReturnInsideBracket

\* the arc is shorter than tol and one step was done all the same
C9_Witness ==
    /\ ReturnedByBisection
    /\ RLe(L, tol)
    /\ it = 1
    /\ xm = <<1, 2>>

RECURSIVE Pow2(_)
Pow2(k) == IF k = 0 THEN 1 ELSE 2 * Pow2(k - 1)

\* does L / 2^k <= tol hold
Narrow(k) == RLe(RDiv(L, R(Pow2(k))), tol)

\* the least k >= 1 with L / 2^k <= tol, for tol > 0
KStar == CHOOSE k \in 1..(gargs.L + 1) :
            Narrow(k) /\ \A j \in 1..(k - 1) : ~Narrow(j)

C10_Safe ==
    (Started /\ NoShortCircuit) =>
        /\ it >= 1 => dx = RDiv(L, R(Pow2(it)))
        /\ (RLt(R(0), tol) /\ gpc = "returned") =>
              (it = KStar /\ (maxiter < 0 \/ maxiter >= KStar))
        /\ (RLt(R(0), tol) /\ gpc = "raised") =>
              (it = maxiter /\ maxiter < KStar)
        /\ (tol = R(0) /\ Finished) => (gpc = "raised" /\ it = maxiter)

\* C10: past the short-circuit tests the run does not depend on the gradient
\* signs: after k >= 1 steps the tracked width is L / 2^k; with tol > 0 and
\* maxiter >= 0 the loop ends, after k* = least k >= 1 with L / 2^k <= tol
\* steps with a return when maxiter >= k*, after maxiter steps with
\* ConvergenceError when maxiter < k*.
C10_IterationCountFixed == []C10_Safe /\ <>Finished

C10_Witness ==
    /\ ReturnedByBisection
    /\ gargs.L = 8 /\ gargs.tol = 1
    /\ it = 3
    /\ gargs.obj.shape = "V"

====
